---------------------------- MODULE Spec2Model ----------------------------
(***************************************************************************)
(* A model of updated_botik.py: the validated field types (Phone,          *)
(* Birthday), Record, AddressBook, the command handlers wrapped by         *)
(* input_error, save_data / load_data and the command loop of main.        *)
(*                                                                         *)
(* Text is modelled as a sequence of one-character strings, so that the    *)
(* digit-run test of Phone, the parse of Birthday and the whitespace split *)
(* of parse_input are computed, not assumed.                               *)
(***************************************************************************)
EXTENDS Integers, Sequences, FiniteSets, TLC

VARIABLES
    book,     \* AddressBook.data: a sequence of records, in insertion order
    pc,       \* where the process is: "start", "loop", "saving", "exited", ...
    file,     \* addressbook.pkl: whether it exists, and the items written to it
    out,      \* what the last call returned / the last command printed
    last,     \* the last call: the handler or method, its arguments, and the
              \* current date it saw
    pre,      \* history: the book as it was before the last call
    hist      \* history: the call before the last one, kept when it was a
              \* remove_phone made on a Record directly

vars == <<book, pc, file, out, last, pre, hist>>

---------------------------------------------------------------------------
(* Bounds of the model and constants of the program.                       *)

\* a record holds at most this many phones in the model
MaxPhones == 2

\* Phone.__init__: len(nums[0]) == 10
PhoneDigits == 10

\* get_upcoming_birthdays: today + timedelta(days=7)
WindowDays == 7

---------------------------------------------------------------------------
(* Characters and text.                                                    *)

DigitChars == <<"0", "1", "2", "3", "4", "5", "6", "7", "8", "9">>

IsDigit(c) == \E i \in 1..10 : DigitChars[i] = c

DigitVal(c) == (CHOOSE i \in 1..10 : DigitChars[i] = c) - 1

UpperChars == <<"A", "B", "C", "D", "E", "F", "G", "H", "I", "J", "K", "L", "M",
                "N", "O", "P", "Q", "R", "S", "T", "U", "V", "W", "X", "Y", "Z">>

LowerChars == <<"a", "b", "c", "d", "e", "f", "g", "h", "i", "j", "k", "l", "m",
                "n", "o", "p", "q", "r", "s", "t", "u", "v", "w", "x", "y", "z">>

\* str.lower() on one character
LowerChar(c) ==
    IF \E i \in 1..26 : UpperChars[i] = c
    THEN LowerChars[CHOOSE i \in 1..26 : UpperChars[i] = c]
    ELSE c

\* str.lower()
Lower(s) == [i \in 1..Len(s) |-> LowerChar(s[i])]

IsSpace(c) == c = " "

\* str.split() with no separator: the maximal runs of non-whitespace
\* characters (leading and trailing whitespace yields no empty token, so the
\* strip() before it changes nothing).
RECURSIVE SplitFrom(_, _, _)
SplitFrom(s, i, cur) ==
    IF i > Len(s)
    THEN IF cur = <<>> THEN <<>> ELSE <<cur>>
    ELSE IF IsSpace(s[i])
         THEN (IF cur = <<>> THEN <<>> ELSE <<cur>>) \o SplitFrom(s, i + 1, <<>>)
         ELSE SplitFrom(s, i + 1, Append(cur, s[i]))

Split(s) == SplitFrom(s, 1, <<>>)

\* parse_input: parts[0] raises IndexError on a line with no token, and
\* nothing in main catches it.
parse_input(user_input) ==
    LET parts == Split(user_input)
    IN  IF parts = <<>>
        THEN [raised |-> TRUE, cmd |-> <<>>, args |-> <<>>]
        ELSE [raised |-> FALSE, cmd |-> Lower(parts[1]), args |-> Tail(parts)]

---------------------------------------------------------------------------
(* Phone.                                                                  *)

\* re.findall(r'\d+', num)[0]: the first maximal run of digits, <<>> if none
FirstDigitRun(num) ==
    IF \E i \in 1..Len(num) : IsDigit(num[i])
    THEN LET first == CHOOSE i \in 1..Len(num) :
                          /\ IsDigit(num[i])
                          /\ \A j \in 1..(i - 1) : ~IsDigit(num[j])
             ends  == {j \in first..Len(num) : \A k \in first..j : IsDigit(num[k])}
         IN  SubSeq(num, first, first + Cardinality(ends) - 1)
    ELSE <<>>

\* a Phone test that accepts a run of 10 digits anywhere in the string
PhoneValidAnyRun(num) ==
    \E i \in 1..Len(num) :
        /\ i + PhoneDigits - 1 <= Len(num)
        /\ \A k \in i..(i + PhoneDigits - 1) : IsDigit(num[k])

\* Phone.__init__ succeeds (otherwise it raises ValueError)
PhoneValid(num) ==
    LET nums0 == FirstDigitRun(num)
    IN  nums0 # <<>> /\ Len(nums0) = PhoneDigits

PhoneError == "Phone number must contain 10 digits"

---------------------------------------------------------------------------
(* Dates and Birthday.  A date is <<year, month, day>>.                    *)

IsLeap(y) == (y % 4 = 0) /\ ((y % 100 # 0) \/ (y % 400 = 0))

DaysInMonth(y, m) ==
    IF m = 2 THEN (IF IsLeap(y) THEN 29 ELSE 28)
    ELSE IF m \in {4, 6, 9, 11} THEN 30 ELSE 31

\* datetime.date(y, m, d) does not raise (years run from MINYEAR = 1 to
\* MAXYEAR = 9999)
DateValid(y, m, d) ==
    /\ y \in 1..9999
    /\ m \in 1..12
    /\ d \in 1..DaysInMonth(y, m)

DaysBeforeYear(y) ==
    ((y - 1) * 365) + ((y - 1) \div 4) - ((y - 1) \div 100) + ((y - 1) \div 400)

RECURSIVE DaysBeforeMonth(_, _)
DaysBeforeMonth(y, m) ==
    IF m = 1 THEN 0 ELSE DaysBeforeMonth(y, m - 1) + DaysInMonth(y, m - 1)

\* date.toordinal(): dates compare as their ordinals, and date + timedelta
\* adds to the ordinal
ToOrdinal(dt) == DaysBeforeYear(dt[1]) + DaysBeforeMonth(dt[1], dt[2]) + dt[3]

\* the parts of s between the dots
RECURSIVE SplitDotsFrom(_, _, _)
SplitDotsFrom(s, i, cur) ==
    IF i > Len(s)
    THEN <<cur>>
    ELSE IF s[i] = "."
         THEN <<cur>> \o SplitDotsFrom(s, i + 1, <<>>)
         ELSE SplitDotsFrom(s, i + 1, Append(cur, s[i]))

SplitDots(s) == SplitDotsFrom(s, 1, <<>>)

NonZeroDigit(c) == IsDigit(c) /\ c # "0"

\* a pattern for %d that takes two digits only
MatchDayTwoDigits(p) ==
    /\ Len(p) = 2
    /\ \/ p[1] = "3" /\ p[2] \in {"0", "1"}
       \/ p[1] \in {"1", "2"} /\ IsDigit(p[2])
       \/ p[1] = "0" /\ NonZeroDigit(p[2])

\* _strptime's pattern for %d: 3[0-1]|[1-2]\d|0[1-9]|[1-9]| [1-9]
MatchDay(p) ==
    \/ /\ Len(p) = 2
       /\ \/ p[1] = "3" /\ p[2] \in {"0", "1"}
          \/ p[1] \in {"1", "2"} /\ IsDigit(p[2])
          \/ p[1] = "0" /\ NonZeroDigit(p[2])
          \/ p[1] = " " /\ NonZeroDigit(p[2])
    \/ Len(p) = 1 /\ NonZeroDigit(p[1])

\* _strptime's pattern for %m: 1[0-2]|0[1-9]|[1-9]
MatchMonth(p) ==
    \/ /\ Len(p) = 2
       /\ \/ p[1] = "1" /\ p[2] \in {"0", "1", "2"}
          \/ p[1] = "0" /\ NonZeroDigit(p[2])
    \/ Len(p) = 1 /\ NonZeroDigit(p[1])

\* _strptime's pattern for %Y: \d\d\d\d
MatchYear(p) == Len(p) = 4 /\ \A i \in 1..4 : IsDigit(p[i])

\* int() of a matched group (a leading space, as %d allows, counts for nothing)
RECURSIVE ToInt(_)
ToInt(p) ==
    IF p = <<>> THEN 0
    ELSE LET c == p[Len(p)]
             v == IF IsDigit(c) THEN DigitVal(c) ELSE 0
         IN  10 * ToInt(SubSeq(p, 1, Len(p) - 1)) + v

BirthdayError == "Invalid date format. Use DD.MM.YYYY"

\* Birthday.__init__: dtdt.strptime(value, "%d.%m.%Y").date(); any ValueError
\* (no match, unconverted data, a date that does not exist) becomes the
\* ValueError with BirthdayError.
Birthday(value) ==
    LET parts == SplitDots(value)
    IN  IF /\ Len(parts) = 3
           /\ MatchDay(parts[1])
           /\ MatchMonth(parts[2])
           /\ MatchYear(parts[3])
           /\ DateValid(ToInt(parts[3]), ToInt(parts[2]), ToInt(parts[1]))
        THEN [raised |-> FALSE,
              value |-> <<ToInt(parts[3]), ToInt(parts[2]), ToInt(parts[1])>>]
        ELSE [raised |-> TRUE, value |-> <<>>]

TwoDigits(n) == <<DigitChars[(n \div 10) + 1], DigitChars[(n % 10) + 1]>>

FourDigits(n) ==
    <<DigitChars[(n \div 1000) + 1], DigitChars[((n \div 100) % 10) + 1],
      DigitChars[((n \div 10) % 10) + 1], DigitChars[(n % 10) + 1]>>

\* the decimal digits of n >= 1 without padding
RECURSIVE Decimal(_)
Decimal(n) ==
    IF n < 10 THEN <<DigitChars[n + 1]>>
    ELSE Append(Decimal(n \div 10), DigitChars[(n % 10) + 1])

\* date.strftime("%d.%m.%Y").  %d and %m are zero-padded to two digits.  %Y
\* is what the C library's strftime gives: four digits for a year >= 1000;
\* for an earlier year the result is padded to four digits on some
\* platforms and left unpadded on others (padYear says which).
strftime(dt, padYear) ==
    TwoDigits(dt[3]) \o <<".">> \o TwoDigits(dt[2]) \o <<".">>
        \o (IF padYear THEN FourDigits(dt[1]) ELSE Decimal(dt[1]))

---------------------------------------------------------------------------
(* Record.  A record is [name, phones, birthday]; phones is the list of    *)
(* Phone values in insertion order; birthday is NoBirthday or a date.      *)

NoBirthday == <<>>

\* Record.__init__
Record(name) == [name |-> name, phones |-> <<>>, birthday |-> NoBirthday]

\* phone_obj in self.phones: Phone.__eq__ compares the stored strings
HasPhone(phones, phone) == \E i \in 1..Len(phones) : phones[i] = phone

\* self.phones.index(phone_obj): the first position holding an equal phone
IndexOf(phones, phone) ==
    CHOOSE i \in 1..Len(phones) :
        phones[i] = phone /\ \A j \in 1..(i - 1) : phones[j] # phone

RemoveAt(seq, i) == SubSeq(seq, 1, i - 1) \o SubSeq(seq, i + 1, Len(seq))

RemovedText == "Removed successfully."
NothingToDelete == "This user has not such number. Nothing to delete!"
ChangedText == "Number has changed."
NothingToChange == "This user has not such number. Nothing to change!"

\* The result of a Record method: raised (a ValueError left the method),
\* ret (what it returned, or the ValueError's message) and rec, the record
\* afterwards.

\* add_phone with the phone put first instead of last
add_phone_first(rec, phone) ==
    IF ~PhoneValid(phone)
    THEN [raised |-> TRUE, ret |-> PhoneError, rec |-> rec]
    ELSE [raised |-> FALSE, ret |-> "True",
          rec |-> [rec EXCEPT !.phones = <<phone>> \o @]]

\* Record.add_phone
add_phone(rec, phone) ==
    IF ~PhoneValid(phone)
    THEN [raised |-> TRUE, ret |-> PhoneError, rec |-> rec]
    ELSE [raised |-> FALSE, ret |-> "True",
          rec |-> [rec EXCEPT !.phones = Append(@, phone)]]

\* remove_phone that reports the removal and leaves the list as it was
remove_phone_keep(rec, phone) ==
    IF ~PhoneValid(phone)
    THEN [raised |-> TRUE, ret |-> PhoneError, rec |-> rec]
    ELSE IF HasPhone(rec.phones, phone)
         THEN [raised |-> FALSE, ret |-> RemovedText, rec |-> rec]
         ELSE [raised |-> FALSE, ret |-> NothingToDelete, rec |-> rec]

\* Record.remove_phone
remove_phone(rec, phone) ==
    IF ~PhoneValid(phone)
    THEN [raised |-> TRUE, ret |-> PhoneError, rec |-> rec]
    ELSE IF HasPhone(rec.phones, phone)
         THEN [raised |-> FALSE, ret |-> RemovedText,
               rec |-> [rec EXCEPT !.phones = RemoveAt(@, IndexOf(@, phone))]]
         ELSE [raised |-> FALSE, ret |-> NothingToDelete, rec |-> rec]

\* edit_phone that validates both phones before it looks for the old one
edit_phone_eager(rec, old_phone, new_phone) ==
    IF ~PhoneValid(old_phone) \/ ~PhoneValid(new_phone)
    THEN [raised |-> TRUE, ret |-> PhoneError, rec |-> rec]
    ELSE IF HasPhone(rec.phones, old_phone)
         THEN [raised |-> FALSE, ret |-> ChangedText,
               rec |-> [rec EXCEPT
                           !.phones[IndexOf(rec.phones, old_phone)] = new_phone]]
         ELSE [raised |-> FALSE, ret |-> NothingToChange, rec |-> rec]

\* edit_phone that stores the new phone as typed, without Phone(new_phone)
edit_phone_unchecked(rec, old_phone, new_phone) ==
    IF ~PhoneValid(old_phone)
    THEN [raised |-> TRUE, ret |-> PhoneError, rec |-> rec]
    ELSE IF HasPhone(rec.phones, old_phone)
         THEN [raised |-> FALSE, ret |-> ChangedText,
               rec |-> [rec EXCEPT
                           !.phones[IndexOf(rec.phones, old_phone)] = new_phone]]
         ELSE [raised |-> FALSE, ret |-> NothingToChange, rec |-> rec]

\* Record.edit_phone: old_phone is validated first; new_phone is validated
\* only on the branch that stores it.
edit_phone(rec, old_phone, new_phone) ==
    IF ~PhoneValid(old_phone)
    THEN [raised |-> TRUE, ret |-> PhoneError, rec |-> rec]
    ELSE IF HasPhone(rec.phones, old_phone)
         THEN IF ~PhoneValid(new_phone)
              THEN [raised |-> TRUE, ret |-> PhoneError, rec |-> rec]
              ELSE [raised |-> FALSE, ret |-> ChangedText,
                    rec |-> [rec EXCEPT
                                !.phones[IndexOf(rec.phones, old_phone)] = new_phone]]
         ELSE [raised |-> FALSE, ret |-> NothingToChange, rec |-> rec]

\* Record.add_birthday
add_birthday_rec(rec, birthday) ==
    LET b == Birthday(birthday)
    IN  IF b.raised
        THEN [raised |-> TRUE, ret |-> BirthdayError, rec |-> rec]
        ELSE [raised |-> FALSE, ret |-> "None",
              rec |-> [rec EXCEPT !.birthday = b.value]]

\* ', '.join(parts)
RECURSIVE JoinComma(_)
JoinComma(parts) ==
    IF parts = <<>> THEN <<>>
    ELSE IF Len(parts) = 1 THEN parts[1]
    ELSE parts[1] \o <<",", " ">> \o JoinComma(Tail(parts))

ContactNameText == <<"C", "o", "n", "t", "a", "c", "t", " ", "n", "a", "m", "e", ":", " ">>
PhonesText == <<",", " ", "p", "h", "o", "n", "e", "s", ":", " ">>
BirthdayText == <<",", " ", "b", "i", "r", "t", "h", "d", "a", "y", ":", " ">>
NoBirthdayText == <<"N", "o", " ", "b", "i", "r", "t", "h", "d", "a", "y", " ", "s", "e", "t">>
BirthdayIsOnText == <<"'", "s", " ", "b", "i", "r", "t", "h", "d", "a", "y", " ", "i", "s", " ", "o", "n", " ">>

\* Record.__str__
RecordStr(rec, padYear) ==
    ContactNameText \o rec.name \o PhonesText \o JoinComma(rec.phones)
        \o BirthdayText
        \o (IF rec.birthday # NoBirthday THEN strftime(rec.birthday, padYear)
            ELSE NoBirthdayText)

---------------------------------------------------------------------------
(* AddressBook: the dict of records, kept as a sequence of records with    *)
(* distinct names, in the order the names were first inserted.             *)

\* the position of name in the book, 0 when it is not a key
Pos(b, name) ==
    IF \E i \in 1..Len(b) : b[i].name = name
    THEN CHOOSE i \in 1..Len(b) : b[i].name = name
    ELSE 0

\* AddressBook.find(name) is not None
Has(b, name) == Pos(b, name) # 0

\* AddressBook.find(name), for a name in the book
find(b, name) == b[Pos(b, name)]

\* AddressBook.add_record: a new key goes last, an existing key keeps its place
add_record(b, rec) ==
    IF Has(b, rec.name) THEN [b EXCEPT ![Pos(b, rec.name)] = rec]
    ELSE Append(b, rec)

\* AddressBook.delete
delete(b, name) == IF Has(b, name) THEN RemoveAt(b, Pos(b, name)) ELSE b

\* the book with the record under rec.name replaced by rec (a method of a
\* record found in the book mutates the object the book holds)
Store(b, rec) == [b EXCEPT ![Pos(b, rec.name)] = rec]

ReplaceError == "day is out of range for month"

\* birthday.replace(year=today.year) raises ValueError
ReplaceRaises(birthday, today) == ~DateValid(today[1], birthday[2], birthday[3])

\* the entry get_upcoming_birthdays appends for rec, <<>> when it appends none
UpcomingEntry(rec, today) ==
    IF rec.birthday = NoBirthday THEN <<>>
    ELSE LET birthday_this_year == <<today[1], rec.birthday[2], rec.birthday[3]>>
         IN  IF /\ ToOrdinal(today) <= ToOrdinal(birthday_this_year)
                /\ ToOrdinal(birthday_this_year) <= ToOrdinal(today) + WindowDays
             THEN <<rec.name \o <<":", " ">> \o strftime(birthday_this_year, TRUE)>>
             ELSE <<>>

RECURSIVE UpcomingFrom(_, _, _)
UpcomingFrom(b, i, today) ==
    IF i > Len(b) THEN <<>>
    ELSE UpcomingEntry(b[i], today) \o UpcomingFrom(b, i + 1, today)

\* AddressBook.get_upcoming_birthdays with dtdt.today().date() = today: the
\* loop over the records stops with the ValueError of date.replace at the
\* first record whose birthday does not exist in today's year, and the
\* entries collected so far are lost with it.
get_upcoming_birthdays(b, today) ==
    IF \E i \in 1..Len(b) :
           b[i].birthday # NoBirthday /\ ReplaceRaises(b[i].birthday, today)
    THEN [raised |-> TRUE, result |-> <<>>]
    ELSE [raised |-> FALSE, result |-> UpcomingFrom(b, 1, today)]

---------------------------------------------------------------------------
(* The command handlers, each as input_error leaves it: the result is the  *)
(* book afterwards and what the handler returned.  A return value is       *)
(* [msg, text]: msg is a fixed message ("" when the text is computed) and  *)
(* text the lines of a computed text.  The two debug print calls of        *)
(* add_contact and change_phone write to the console only.                 *)

Out(msg) == [msg |-> msg, text |-> <<>>]

TextOut(lines) == [msg |-> "", text |-> lines]

NotEnoughArgs == "Not enough arguments provided."
NoSuchUser == "No such user in address book!"

\* add_contact: the new Record is put into the book before add_phone
\* validates the phone
add_contact(args, b) ==
    IF Len(args) < 2 THEN [book |-> b, out |-> Out(NotEnoughArgs)]
    ELSE LET name  == args[1]
             phone == args[2]
         IN  IF ~Has(b, name)
             THEN LET b1 == add_record(b, Record(name))
                      r  == add_phone(Record(name), phone)
                  IN  IF r.raised THEN [book |-> b1, out |-> Out(r.ret)]
                      ELSE [book |-> Store(b1, r.rec), out |-> Out("Contact added.")]
             ELSE LET r == add_phone(find(b, name), phone)
                  IN  IF r.raised THEN [book |-> b, out |-> Out(r.ret)]
                      ELSE [book |-> Store(b, r.rec), out |-> Out("Contact updated.")]

\* add_birthday
add_birthday(args, b) ==
    IF Len(args) < 2 THEN [book |-> b, out |-> Out(NotEnoughArgs)]
    ELSE LET name     == args[1]
             birthday == args[2]
         IN  IF ~Has(b, name) THEN [book |-> b, out |-> Out(NoSuchUser)]
             ELSE LET r == add_birthday_rec(find(b, name), birthday)
                  IN  IF r.raised THEN [book |-> b, out |-> Out(r.ret)]
                      ELSE [book |-> Store(b, r.rec), out |-> Out("Birthday was added.")]

\* show_birthday
show_birthday(args, b, padYear) ==
    IF Len(args) < 1 THEN [book |-> b, out |-> Out(NotEnoughArgs)]
    ELSE LET name == args[1]
         IN  IF ~Has(b, name) THEN [book |-> b, out |-> Out(NoSuchUser)]
             ELSE IF find(b, name).birthday # NoBirthday
                  THEN [book |-> b,
                        out |-> TextOut(<<name \o BirthdayIsOnText
                                    \o strftime(find(b, name).birthday, padYear)>>)]
                  ELSE [book |-> b, out |-> Out("Birthday not set for this contact.")]

\* birthdays: "\n".join of the entries, one line each
birthdays(args, b, today) ==
    LET u == get_upcoming_birthdays(b, today)
    IN  IF u.raised THEN [book |-> b, out |-> Out(ReplaceError)]
        ELSE IF u.result = <<>> THEN [book |-> b, out |-> Out("No upcoming birthdays.")]
        ELSE [book |-> b, out |-> TextOut(u.result)]

\* show_all
show_all(args, b, padYear) ==
    IF b = <<>> THEN [book |-> b, out |-> Out("No contacts in address book.")]
    ELSE [book |-> b,
          out |-> TextOut([i \in 1..Len(b) |-> RecordStr(b[i], padYear)])]

\* show_phone
show_phone(args, b) ==
    IF Len(args) < 1 THEN [book |-> b, out |-> Out(NotEnoughArgs)]
    ELSE LET name == args[1]
         IN  IF ~Has(b, name) THEN [book |-> b, out |-> Out(NoSuchUser)]
             ELSE [book |-> b, out |-> TextOut(<<JoinComma(find(b, name).phones)>>)]

\* change_phone
change_phone(args, b) ==
    IF Len(args) < 3 THEN [book |-> b, out |-> Out(NotEnoughArgs)]
    ELSE LET name == args[1]
         IN  IF ~Has(b, name) THEN [book |-> b, out |-> Out(NoSuchUser)]
             ELSE LET r == edit_phone(find(b, name), args[2], args[3])
                  IN  [book |-> Store(b, r.rec), out |-> Out(r.ret)]

---------------------------------------------------------------------------
(* save_data and load_data.  The pickle of a book is its records, one item *)
(* each, closed by the STOP item; the file holds the items written so far. *)

NoFile == [exists |-> FALSE, data |-> <<>>]

StopItem == [op |-> "STOP", rec |-> Record(<<>>)]

\* pickle.dump(book, f): the bytes it produces
Pickle(b) == [i \in 1..Len(b) |-> [op |-> "REC", rec |-> b[i]]] \o <<StopItem>>

\* pickle.load(f) returns (it raises EOFError or UnpicklingError on a file
\* that does not end with the STOP item)
Loadable(data) == data # <<>> /\ data[Len(data)].op = "STOP"

\* pickle.load(f), for a loadable file
Unpickle(data) == [i \in 1..(Len(data) - 1) |-> data[i].rec]

---------------------------------------------------------------------------
(* The inputs of the model: tokens, input lines and current dates.         *)

tHello == <<"h", "e", "l", "l", "o">>
tAdd == <<"a", "d", "d">>
tChange == <<"c", "h", "a", "n", "g", "e">>
tPhone == <<"p", "h", "o", "n", "e">>
tAll == <<"a", "l", "l">>
tAddBirthday == <<"a", "d", "d", "-", "b", "i", "r", "t", "h", "d", "a", "y">>
tShowBirthday == <<"s", "h", "o", "w", "-", "b", "i", "r", "t", "h", "d", "a", "y">>
tBirthdays == <<"b", "i", "r", "t", "h", "d", "a", "y", "s">>
tClose == <<"c", "l", "o", "s", "e">>
tExit == <<"e", "x", "i", "t">>
tFoo == <<"f", "o", "o">>
tADD == <<"A", "D", "D">>
tExitCap == <<"E", "x", "i", "t">>

Ann == <<"A", "n", "n">>
Bob == <<"B", "o", "b">>

Names == {Ann, Bob}

\* valid phones
P1 == <<"0", "5", "0", "1", "2", "3", "4", "5", "6", "7">>
P2 == <<"0", "5", "0", "9", "9", "9", "9", "9", "9", "9">>
\* valid, and stored with its sign: the first run of digits has 10 digits
PPlus == <<"+", "0", "5", "0", "1", "2", "3", "4", "5", "6", "7">>
\* not valid: 3 digits, 11 digits, and a 10-digit run that is not the first run
T111 == <<"1", "1", "1">>
T222 == <<"2", "2", "2">>
T11 == <<"0", "5", "0", "1", "2", "3", "4", "5", "6", "7", "8">>
TLate == <<"0", "5", "0", "-", "1", "2", "3", "4", "5", "6", "7", "8", "9", "0">>

\* the phone strings handed to the Record methods
ApiTokens == {P1, P2, PPlus, T111, T11, TLate}

D1 == <<"1", "5", ".", "0", "3", ".", "1", "9", "9", "0">>
D2 == <<"2", "9", ".", "0", "2", ".", "2", "0", "0", "0">>
D3 == <<"0", "2", ".", "0", "1", ".", "1", "9", "9", "1">>
DBad == <<"3", "1", ".", "0", "2", ".", "1", "9", "9", "0">>

\* dtdt.today().date(): days of a leap year and of a common year, one of
\* them before 29 February, one in the last week of December and one on
\* New Year's Day
Todays == {<<2024, 3, 10>>, <<2024, 3, 20>>, <<2024, 2, 25>>, <<2025, 1, 1>>,
           <<2024, 12, 28>>}

\* the tokens joined by one space each
RECURSIVE Line(_)
Line(tokens) ==
    IF tokens = <<>> THEN <<>>
    ELSE IF Len(tokens) = 1 THEN tokens[1]
    ELSE tokens[1] \o <<" ">> \o Line(Tail(tokens))

\* the lines typed at the prompt: every command with and without its
\* arguments, in full for Bob and in part for Ann
InputLines ==
    {Line(<<c>>) : c \in {tHello, tAll, tBirthdays, tClose, tExit, tFoo, tExitCap,
                          tAdd, tChange, tPhone, tAddBirthday, tShowBirthday}}
    \cup {Line(<<tAdd, Bob, p>>) : p \in {P1, P2, T111}}
    \cup {Line(<<tAdd, Ann, p>>) : p \in {P1, T111}}
    \cup {Line(<<tAdd, Bob>>)}
    \cup {Line(<<tChange, Bob, o, w>>) : o \in {P1, P2, T111}, w \in {P2, T222}}
    \cup {Line(<<tChange, Ann, P2, T222>>), Line(<<tChange, Bob, P1>>)}
    \cup {Line(<<tPhone, n>>) : n \in Names}
    \cup {Line(<<tAddBirthday, Bob, d>>) : d \in {D1, D2, DBad}}
    \cup {Line(<<tAddBirthday, Ann, D3>>), Line(<<tAddBirthday, Bob>>)}
    \cup {Line(<<tShowBirthday, n>>) : n \in Names}
    \cup {<<>>, <<" ", " ">>,
          <<" ", " ">> \o Line(<<tADD, Bob, P2, tFoo>>) \o <<" ">>,
          Line(<<tAdd, Bob>>) \o <<" ", " ", " ">> \o P1}

\* what parse_input makes of each line
ParsedLines == {parse_input(l) : l \in InputLines}

\* no record holds more phones than the model allows
Bounded(b) == \A i \in 1..Len(b) : Len(b[i].phones) <= MaxPhones

---------------------------------------------------------------------------
(* main: load_data, then the command loop.                                 *)

NoToday == <<>>

Call(op, args, today) == [op |-> op, args |-> args, today |-> today]

NoCall == Call("", <<>>, NoToday)

NoHist == [op |-> "", args |-> <<>>, ret |-> "", pre |-> <<>>]

\* hist after one more call
HistNext ==
    IF last.op = "remove_phone"
    THEN [op |-> last.op, args |-> last.args, ret |-> out.msg, pre |-> pre]
    ELSE NoHist

Init ==
    /\ book = <<>>
    /\ pc = "start"
    /\ file = NoFile
    /\ out = Out("")
    /\ last = NoCall
    /\ pre = <<>>
    /\ hist = NoHist

\* book = load_data(): a missing file gives an empty book; a file that
\* pickle.load cannot read raises past main
Start ==
    /\ pc = "start"
    /\ IF ~file.exists
       THEN book' = <<>> /\ pc' = "loop" /\ out' = Out("Welcome to the assistant bot!")
       ELSE IF Loadable(file.data)
            THEN /\ book' = Unpickle(file.data)
                 /\ pc' = "loop"
                 /\ out' = Out("Welcome to the assistant bot!")
            ELSE book' = book /\ pc' = "crashed" /\ out' = Out("UnpicklingError")
    /\ last' = Call("load_data", <<>>, NoToday)
    /\ pre' = book
    /\ UNCHANGED <<file, hist>>

\* one pass of the loop that calls a handler and prints what it returns
Do(op, args, today, res) ==
    /\ Bounded(res.book)
    /\ book' = res.book
    /\ out' = res.out
    /\ last' = Call(op, args, today)
    /\ pre' = book
    /\ hist' = HistNext
    /\ UNCHANGED <<pc, file>>

\* input() read a line that parse_input could split
Read(p, cmds) == pc = "loop" /\ ~p.raised /\ p.cmd \in cmds

\* a line with no token: parse_input raises IndexError and main ends with it
ReadEmpty(p) ==
    /\ pc = "loop"
    /\ p.raised
    /\ pc' = "crashed"
    /\ out' = Out("IndexError")
    /\ last' = Call("parse_input", <<>>, NoToday)
    /\ pre' = book
    /\ UNCHANGED <<book, file, hist>>

\* the input ends: input() raises EOFError and main ends with it
InputEOF ==
    /\ pc = "loop"
    /\ pc' = "crashed"
    /\ out' = Out("EOFError")
    /\ last' = Call("input", <<>>, NoToday)
    /\ pre' = book
    /\ UNCHANGED <<book, file, hist>>

CmdHello(p) ==
    /\ Read(p, {tHello})
    /\ Do("hello", p.args, NoToday,
          [book |-> book, out |-> Out("How can I help you?")])

CmdAdd(p) ==
    /\ Read(p, {tAdd})
    /\ Do("add_contact", p.args, NoToday, add_contact(p.args, book))

CmdChange(p) ==
    /\ Read(p, {tChange})
    /\ Do("change_phone", p.args, NoToday, change_phone(p.args, book))

CmdPhone(p) ==
    /\ Read(p, {tPhone})
    /\ Do("show_phone", p.args, NoToday, show_phone(p.args, book))

CmdAll(p) ==
    /\ Read(p, {tAll})
    /\ \E padYear \in BOOLEAN :
           Do("show_all", p.args, NoToday, show_all(p.args, book, padYear))

CmdAddBirthday(p) ==
    /\ Read(p, {tAddBirthday})
    /\ Do("add_birthday", p.args, NoToday, add_birthday(p.args, book))

CmdShowBirthday(p) ==
    /\ Read(p, {tShowBirthday})
    /\ \E padYear \in BOOLEAN :
           Do("show_birthday", p.args, NoToday, show_birthday(p.args, book, padYear))

CmdBirthdays(p) ==
    /\ Read(p, {tBirthdays})
    /\ \E today \in Todays :
           Do("birthdays", p.args, today, birthdays(p.args, book, today))

CmdInvalid(p) ==
    /\ pc = "loop"
    /\ ~p.raised
    /\ p.cmd \notin {tClose, tExit, tHello, tAdd, tChange, tPhone, tAll,
                     tAddBirthday, tShowBirthday, tBirthdays}
    /\ Do("invalid", p.args, NoToday,
          [book |-> book, out |-> Out("Invalid command.")])

\* close / exit: save_data opens addressbook.pkl with "wb", which creates
\* the file or cuts it to length 0 ...
CmdExit(p) ==
    /\ Read(p, {tClose, tExit})
    /\ pc' = "saving"
    /\ file' = [exists |-> TRUE, data |-> <<>>]
    /\ out' = Out("")
    /\ last' = Call("save_data", <<>>, NoToday)
    /\ pre' = book
    /\ UNCHANGED <<book, hist>>

\* ... pickle.dump writes the pickle, one item at a time ...
SaveWrite ==
    /\ pc = "saving"
    /\ Len(file.data) < Len(Pickle(book))
    /\ file' = [file EXCEPT !.data = Append(@, Pickle(book)[Len(@) + 1])]
    /\ UNCHANGED <<book, pc, out, last, pre, hist>>

\* ... the file is closed, main prints "Good bye!" and leaves the loop
SaveClose ==
    /\ pc = "saving"
    /\ Len(file.data) = Len(Pickle(book))
    /\ pc' = "exited"
    /\ out' = Out("Good bye!")
    /\ UNCHANGED <<book, file, last, pre, hist>>

Command(p) ==
    \/ ReadEmpty(p)
    \/ CmdExit(p)
    \/ CmdHello(p)
    \/ CmdAdd(p)
    \/ CmdChange(p)
    \/ CmdPhone(p)
    \/ CmdAll(p)
    \/ CmdAddBirthday(p)
    \/ CmdShowBirthday(p)
    \/ CmdBirthdays(p)
    \/ CmdInvalid(p)

Next ==
    \/ Start
    \/ \E p \in ParsedLines : Command(p)
    \/ InputEOF
    \/ SaveWrite
    \/ SaveClose

Spec == Init /\ [][Next]_vars

---------------------------------------------------------------------------
(* Properties of the command loop, checked under Spec.                     *)

\* the messages with which a handler rejects a command
Rejections == {PhoneError, BirthdayError, NotEnoughArgs, NoSuchUser, "Contact not found."}

\* C1: whenever add, change or add-birthday rejects the command (a
\* validation message, "Not enough arguments provided." or a missing-contact
\* message), the address book after the call equals the address book before.
C1_NoPartialMutation ==
    (last.op \in {"add_contact", "change_phone", "add_birthday"}
        /\ out.msg \in Rejections)
            => book = pre

\* C2: the process terminates only on close / exit, and the current address
\* book has been persisted when it terminates.
C2_EndsOnlyByExitAfterSave ==
    pc \notin {"start", "loop", "saving"}
        => /\ pc = "exited"
           /\ last.op = "save_data"
           /\ file.exists
           /\ file.data = Pickle(book)

\* the date with the month and day of birthday in the year of today exists
\* and lies in [today, today + 7 days]
InWindow(birthday, today) ==
    /\ DateValid(today[1], birthday[2], birthday[3])
    /\ \E k \in 0..WindowDays :
           ToOrdinal(<<today[1], birthday[2], birthday[3]>>) = ToOrdinal(today) + k

\* the list C3 describes: in the book's order, "name: DD.MM.YYYY" for each
\* record whose re-mapped birthday lies in the window
RECURSIVE ExpectedUpcoming(_, _)
ExpectedUpcoming(b, today) ==
    IF b = <<>> THEN <<>>
    ELSE (IF b[1].birthday # NoBirthday /\ InWindow(b[1].birthday, today)
          THEN <<b[1].name \o <<":", " ">>
                    \o TwoDigits(b[1].birthday[3]) \o <<".">>
                    \o TwoDigits(b[1].birthday[2]) \o <<".">>
                    \o FourDigits(today[1])>>
          ELSE <<>>)
         \o ExpectedUpcoming(Tail(b), today)

\* C3: for every book and every today, the upcoming-birthdays list holds, in
\* the book's order, exactly one entry "name: DD.MM.YYYY" for each record
\* whose birthday re-mapped onto today's year lies in [today, today + 7 days]
\* (seen through the birthdays command, which prints the entries one per
\* line, or "No upcoming birthdays." for the empty list).
C3_UpcomingBirthdays ==
    last.op = "birthdays"
        => out = (IF ExpectedUpcoming(book, last.today) = <<>>
                  THEN Out("No upcoming birthdays.")
                  ELSE TextOut(ExpectedUpcoming(book, last.today)))

\* the last command was a change that named a contact of the book whose
\* phone list did not contain the old phone
ChangeOfAbsentPhone ==
    /\ last.op = "change_phone"
    /\ Len(last.args) >= 3
    /\ Has(pre, last.args[1])
    /\ ~HasPhone(find(pre, last.args[1]).phones, last.args[2])

\* C4 as claimed: for every existing contact and every <old> its phone list
\* does not contain, valid or not, `change <name> <old> <new>` returns
\* "This user has not such number. Nothing to change!" and changes nothing.
C4_AnyAbsentOld ==
    ChangeOfAbsentPhone => (out.msg = NothingToChange /\ book = pre)

\* C4 as amended: for every existing contact and every <old> that is a valid
\* phone and is not in its phone list, the command returns "This user has
\* not such number. Nothing to change!" whatever <new> is; for an <old> that
\* is not a valid phone it returns "Phone number must contain 10 digits".
\* The phone list is unchanged in both cases.
C4_ValidAbsentOld ==
    ChangeOfAbsentPhone
        => /\ book = pre
           /\ out.msg = (IF PhoneValid(last.args[2]) THEN NothingToChange
                         ELSE PhoneError)

\* C4's case: a change command with a valid old phone that the contact does
\* not have and a new phone that is not valid
C4_Witness ==
    /\ ChangeOfAbsentPhone
    /\ last.args = <<Bob, P2, T222>>
    /\ find(pre, Bob).phones = <<P1>>

\* the records of b under the names other than name
Others(b, name) == {b[i] : i \in {j \in 1..Len(b) : b[j].name # name}}

\* the last command was an add with a valid phone
AddOfValidPhone ==
    /\ last.op = "add_contact"
    /\ Len(last.args) >= 2
    /\ PhoneValid(last.args[2])

\* C6: `add <name> <phone>` with a valid phone: a name not in the book gets
\* a record whose phone list is exactly [phone]; a name in the book keeps its
\* record (birthday and earlier phones, in their order) with the phone
\* appended last.  Every other record is unchanged.
C6_AddContact ==
    AddOfValidPhone
        => LET name  == last.args[1]
               phone == last.args[2]
           IN  /\ Has(book, name)
               /\ Others(book, name) = Others(pre, name)
               /\ IF Has(pre, name)
                  THEN /\ Len(book) = Len(pre)
                       /\ Pos(book, name) = Pos(pre, name)
                       /\ find(book, name).birthday = find(pre, name).birthday
                       /\ find(book, name).phones = Append(find(pre, name).phones, phone)
                  ELSE /\ Len(book) = Len(pre) + 1
                       /\ find(book, name).phones = <<phone>>

\* C6's case: a second phone has been added to a contact that has a
\* birthday, in a book that holds another contact
C6_Witness ==
    /\ AddOfValidPhone
    /\ Has(pre, Bob) /\ Has(pre, Ann)
    /\ find(pre, Bob).phones = <<P1>>
    /\ find(book, Bob).phones = <<P1, P2>>
    /\ find(book, Bob).birthday # NoBirthday

---------------------------------------------------------------------------
(* The Record methods and the handlers called directly, on the record of   *)
(* one contact: any sequence of add_phone, remove_phone and edit_phone     *)
(* calls and of add and change commands, with valid and invalid strings.   *)

InitApi ==
    /\ book = <<>>
    /\ pc = "api"
    /\ file = NoFile
    /\ out = Out("")
    /\ last = NoCall
    /\ pre = <<>>
    /\ hist = NoHist

\* a method called on the record the book holds under Bob
RecCall(op, args, r) ==
    Do(op, args, NoToday, [book |-> Store(book, r.rec), out |-> Out(r.ret)])

ApiAddContact ==
    /\ pc = "api"
    /\ \E phone \in ApiTokens :
           Do("add_contact", <<Bob, phone>>, NoToday, add_contact(<<Bob, phone>>, book))

ApiChangePhone ==
    /\ pc = "api"
    /\ \E old \in {P1, T111} : \E new \in {P2, TLate} :
           Do("change_phone", <<Bob, old, new>>, NoToday,
              change_phone(<<Bob, old, new>>, book))

RecAddPhone ==
    /\ pc = "api" /\ Has(book, Bob)
    /\ \E phone \in ApiTokens :
           RecCall("add_phone", <<phone>>, add_phone(find(book, Bob), phone))

RecRemovePhone ==
    /\ pc = "api" /\ Has(book, Bob)
    /\ \E phone \in ApiTokens :
           RecCall("remove_phone", <<phone>>, remove_phone(find(book, Bob), phone))

RecEditPhone ==
    /\ pc = "api" /\ Has(book, Bob)
    /\ \E old \in ApiTokens : \E new \in {P2, PPlus, T111} :
           RecCall("edit_phone", <<old, new>>, edit_phone(find(book, Bob), old, new))

NextApi ==
    \/ ApiAddContact
    \/ ApiChangePhone
    \/ RecAddPhone
    \/ RecRemovePhone
    \/ RecEditPhone

SpecApi == InitApi /\ [][NextApi]_vars

\* how many entries of phones equal phone
Count(phones, phone) == Cardinality({i \in 1..Len(phones) : phones[i] = phone})

\* remove_phone has just been called twice in a row with the same number,
\* on a record whose list held the number before the first call
RemovedTwice ==
    /\ last.op = "remove_phone"
    /\ hist.op = "remove_phone"
    /\ hist.args = last.args
    /\ HasPhone(find(hist.pre, Bob).phones, last.args[1])

\* C5 as claimed: for every record whose list contains the number, two
\* remove_phone calls in a row return "Removed successfully." and then
\* "This user has not such number. Nothing to delete!", and after the first
\* call the number is no longer in the list.
C5_RemoveTwice ==
    RemovedTwice
        => /\ hist.ret = RemovedText
           /\ ~HasPhone(find(pre, Bob).phones, last.args[1])
           /\ out.msg = NothingToDelete

\* C5 as amended: the first call returns "Removed successfully." and removes
\* the first occurrence only.  When the list held the number exactly once,
\* the number is gone after the first call and the second call returns
\* "... Nothing to delete!"; when it held the number more than once (add_phone
\* accepts duplicates), the number is still in the list and the second call
\* returns "Removed successfully." again.
C5_RemoveTwiceOnce ==
    RemovedTwice
        => LET number == last.args[1]
               before == find(hist.pre, Bob).phones
               middle == find(pre, Bob).phones
           IN  /\ hist.ret = RemovedText
               /\ middle = RemoveAt(before, IndexOf(before, number))
               /\ IF Count(before, number) = 1
                  THEN ~HasPhone(middle, number) /\ out.msg = NothingToDelete
                  ELSE HasPhone(middle, number) /\ out.msg = RemovedText

\* C5's case: the number was in the list once, among other numbers, and has
\* been removed twice
C5_Witness ==
    /\ RemovedTwice
    /\ Count(find(hist.pre, Bob).phones, last.args[1]) = 1
    /\ Len(find(hist.pre, Bob).phones) = 2
    /\ out.msg = NothingToDelete

\* the length of the first maximal run of digits of s, from position i on
RECURSIVE FirstRunLength(_, _, _)
FirstRunLength(s, i, n) ==
    IF i > Len(s) THEN n
    ELSE IF IsDigit(s[i]) THEN FirstRunLength(s, i + 1, n + 1)
    ELSE IF n > 0 THEN n
    ELSE FirstRunLength(s, i + 1, 0)

\* C7: every entry of every record's phone list is a string whose first
\* maximal run of digits has length exactly 10.
C7_StoredPhonesValid ==
    \A i \in 1..Len(book) : \A j \in 1..Len(book[i].phones) :
        FirstRunLength(book[i].phones[j], 1, 0) = 10

\* C7's case: phones are stored, one of them with a character that is not a
\* digit, and a string with a late run of 10 digits has just been refused
C7_Witness ==
    /\ Has(book, Bob)
    /\ HasPhone(find(book, Bob).phones, PPlus)
    /\ Len(find(book, Bob).phones) = 2
    /\ last.op \in {"add_phone", "edit_phone", "add_contact"}
    /\ last.args[Len(last.args)] \in {TLate, T111}
    /\ out.msg = PhoneError

\* the last call was edit_phone(old, new) on Bob's record
EditCalled == last.op = "edit_phone"

\* C9 as claimed: whenever old or new fails phone validation, edit_phone
\* fails with "Phone number must contain 10 digits", whether or not old is
\* in the list, and the list is unchanged; "Number has changed." and "...
\* Nothing to change!" are returned only when both arguments are valid.
C9_ValidatesBoth ==
    EditCalled
        => LET bothValid == PhoneValid(last.args[1]) /\ PhoneValid(last.args[2])
           IN  /\ ~bothValid => (out.msg = PhoneError /\ book = pre)
               /\ out.msg \in {ChangedText, NothingToChange} => bothValid

\* C9 as amended: edit_phone validates old always and new only when old is
\* in the list.  It fails with "Phone number must contain 10 digits", the
\* list unchanged, exactly when old is not valid, or old is in the list and
\* new is not valid; it returns "... Nothing to change!", the list unchanged,
\* exactly when old is valid and not in the list, whatever new is; and it
\* returns "Number has changed." exactly when old is in the list and new is
\* valid.
C9_ValidatesOldThenNew ==
    EditCalled
        => LET old    == last.args[1]
               new    == last.args[2]
               phones == find(pre, Bob).phones
           IN  out.msg =
                   (IF ~PhoneValid(old) THEN PhoneError
                    ELSE IF ~HasPhone(phones, old) THEN NothingToChange
                    ELSE IF ~PhoneValid(new) THEN PhoneError
                    ELSE ChangedText)
               /\ (out.msg # ChangedText => book = pre)
               /\ (out.msg = ChangedText
                      => find(book, Bob).phones
                             = [phones EXCEPT ![IndexOf(phones, old)] = new])

\* C9's case: edit_phone called with a valid old phone that is not in the
\* list and a new phone that is not valid
C9_Witness ==
    /\ EditCalled
    /\ last.args = <<P2, T111>>
    /\ find(pre, Bob).phones = <<P1, PPlus>>
    /\ out.msg = NothingToChange

---------------------------------------------------------------------------
(* Birthday on its own: construction from a string (Record.add_birthday)   *)
(* and rendering (Birthday.__str__), over strings of every shape.          *)

DayParts ==
    {<<"0", "1">>, <<"1">>, <<" ", "1">>, <<"1", "5">>, <<"2", "9">>,
     <<"3", "0">>, <<"3", "1">>, <<"3", "2">>, <<"0", "0">>, <<"0">>,
     <<"1", "a">>, <<>>}

MonthParts ==
    {<<"0", "2">>, <<"2">>, <<"0", "3">>, <<"0", "4">>, <<"1", "2">>,
     <<"1", "3">>, <<"0", "0">>, <<" ", "2">>}

YearParts ==
    {<<"1", "9", "9", "0">>, <<"2", "0", "0", "0">>, <<"2", "0", "2", "3">>,
     <<"0", "9", "9", "9">>, <<"0", "0", "0", "0">>, <<"9", "9", "9">>,
     <<"1", "9", "9", "0", "0">>}

BirthdayStrings ==
    {d \o <<".">> \o m \o <<".">> \o y : d \in DayParts, m \in MonthParts, y \in YearParts}
    \cup {<<"1", "5", ".", "0", "3">>,
          <<"1", "5", ".", "0", "3", ".", "1", "9", "9", "0", ".", "1">>,
          <<"1", "5", "-", "0", "3", "-", "1", "9", "9", "0">>,
          <<"1", "5", ".", "0", "3", ".", "1", "9", "9", "0", " ">>}

\* a new record, and the string its birthday is to be made from
InitField ==
    /\ book = <<Record(Bob)>>
    /\ pc = "field"
    /\ file = NoFile
    /\ out = Out("")
    /\ \E raw \in BirthdayStrings : last = Call("", <<raw>>, NoToday)
    /\ pre = <<>>
    /\ hist = NoHist

\* record.add_birthday(raw), that is record.birthday = Birthday(raw)
NewBirthday ==
    /\ pc = "field"
    /\ last.op = ""
    /\ RecCall("add_birthday", last.args,
               add_birthday_rec(find(book, Bob), last.args[1]))

\* str(record.birthday), of the Birthday just constructed
StrBirthday ==
    /\ pc = "field"
    /\ last.op = "add_birthday"
    /\ out.msg = "None"
    /\ \E padYear \in BOOLEAN :
           Do("birthday_str", last.args, NoToday,
              [book |-> book,
               out |-> TextOut(<<strftime(find(book, Bob).birthday, padYear)>>)])

NextField == NewBirthday \/ StrBirthday

SpecField == InitField /\ [][NextField]_vars

\* s has the form DD.MM.YYYY: two digits, a dot, two digits, a dot, four digits
StrictForm(s) ==
    /\ Len(s) = 10
    /\ s[3] = "." /\ s[6] = "."
    /\ \A i \in {1, 2, 4, 5, 7, 8, 9, 10} : IsDigit(s[i])

\* the number a string of digits denotes
Number(s) ==
    LET place(i) == IF i = Len(s) THEN 1
                    ELSE IF i = Len(s) - 1 THEN 10
                    ELSE IF i = Len(s) - 2 THEN 100 ELSE 1000
        digit(i) == CHOOSE v \in 0..9 : DigitChars[v + 1] = s[i]
    IN  IF Len(s) = 0 THEN 0
        ELSE IF Len(s) = 1 THEN digit(1)
        ELSE IF Len(s) = 2 THEN digit(1) * place(1) + digit(2)
        ELSE IF Len(s) = 3 THEN digit(1) * place(1) + digit(2) * place(2) + digit(3)
        ELSE digit(1) * place(1) + digit(2) * place(2) + digit(3) * place(3) + digit(4)

\* day d of month m of year y is a day of the calendar
RealDate(y, m, d) ==
    /\ y >= 1
    /\ m \in 1..12
    /\ d >= 1
    /\ d <= (IF m \in {1, 3, 5, 7, 8, 10, 12} THEN 31
             ELSE IF m # 2 THEN 30
             ELSE IF y % 400 = 0 \/ (y % 4 = 0 /\ y % 100 # 0) THEN 29 ELSE 28)

\* s has the form DD.MM.YYYY and denotes a real calendar date
StrictReal(s) ==
    /\ StrictForm(s)
    /\ RealDate(Number(SubSeq(s, 7, 10)), Number(SubSeq(s, 4, 5)), Number(SubSeq(s, 1, 2)))

\* the ways to write n as a day or a month: two digits; below 10 also one
\* digit, and (a day only) a space and one digit
Written(n, spaceToo) ==
    {<<DigitChars[(n \div 10) + 1], DigitChars[(n % 10) + 1]>>}
    \cup (IF n < 10 THEN {<<DigitChars[n + 1]>>} ELSE {})
    \cup (IF n < 10 /\ spaceToo THEN {<<" ", DigitChars[n + 1]>>} ELSE {})

\* s is a day, a dot, a month, a dot and a four-digit year, the day and the
\* month written with one or two digits, and denotes a real calendar date
LenientReal(s) ==
    \E d \in 1..31 : \E m \in 1..12 : \E dw \in Written(d, TRUE) : \E mw \in Written(m, FALSE) :
        LET n == Len(dw) + Len(mw) + 2
        IN  /\ Len(s) = n + 4
            /\ SubSeq(s, 1, n) = dw \o <<".">> \o mw \o <<".">>
            /\ \A i \in (n + 1)..(n + 4) : IsDigit(s[i])
            /\ RealDate(Number(SubSeq(s, n + 1, n + 4)), m, d)

---------------------------------------------------------------------------
(* Runs that can be interrupted and started again: the process may be      *)
(* killed at the prompt or while save_data writes, and main is then run    *)
(* again on the file the earlier run left.                                 *)

\* the lines of these runs
CrashLines ==
    {Line(<<tAdd, Bob, P1>>), Line(<<tAdd, Ann, P2>>), Line(<<tAdd, Bob, T111>>),
     Line(<<tAddBirthday, Bob, D1>>), Line(<<tExit>>), Line(<<tClose>>), <<>>}

ParsedCrashLines == {parse_input(l) : l \in CrashLines}

\* the process is killed: at the prompt, or between two steps of save_data
Interrupt ==
    /\ pc \in {"loop", "saving"}
    /\ pc' = "killed"
    /\ out' = Out("")
    /\ UNCHANGED <<book, file, last, pre, hist>>

\* main is run again: a new process, with nothing in memory
Restart ==
    /\ pc \in {"killed", "exited", "crashed"}
    /\ pc' = "start"
    /\ book' = <<>>
    /\ out' = Out("")
    /\ last' = NoCall
    /\ pre' = <<>>
    /\ UNCHANGED <<file, hist>>

CrashCommand(p) ==
    \/ ReadEmpty(p)
    \/ CmdExit(p)
    \/ CmdAdd(p)
    \/ CmdAddBirthday(p)

NextCrash ==
    \/ Start
    \/ \E p \in ParsedCrashLines : CrashCommand(p)
    \/ SaveWrite
    \/ SaveClose
    \/ Interrupt
    \/ Restart

SpecCrash == Init /\ [][NextCrash]_vars

\* C10: if the process is interrupted at any point, between commands or
\* during the save at shutdown, the persisted file is absent or holds a
\* complete snapshot, and the next startup loads a complete address book
\* (or starts empty), never a partial or unreadable one.
C10_AllOrNothing ==
    /\ pc = "killed" => (~file.exists \/ Loadable(file.data))
    /\ last.op = "load_data" => pc # "crashed"

=============================================================================
